---- MODULE Spec2Model ----
(***************************************************************************)
(* Model of the PoC RPC handler (client/consensus/poc/rpc/src/lib.rs):     *)
(* the "poc_rpc_nsn_handler" thread that serves one new-slot event at a    *)
(* time, the slot-info subscriptions it notifies and the                   *)
(* poc_proposeProofOfSpace calls that feed solutions back to it.           *)
(***************************************************************************)
EXTENDS Integers, Sequences, FiniteSets, TLC

\* ------------------------------------------------------------------ bounds
MaxSubscribers == 2
MaxSubmits == 2
MaxRounds == 2

\* usize::MAX, the value `0 - 1` wraps to when overflow checks are off.  The
\* model keeps the largest integer TLC represents in its place.
UsizeMax == 2147483647

\* The slot numbers the feed hands out: two, so that one round can be open
\* while another slot's round is over, and a slot can come twice.
Slots == {1, 2}
\* The RPC clients that call propose_proof_of_space: client c is the one
\* behind outlet c, whether or not it has subscribed.
Callers == {1, 2}
Rounds == 1..MaxRounds

\* ------------------------------------------------------------ data model
\* Option<T>: None is the empty tuple, Some(x) the one-element tuple.
None == <<>>
Some(x) == <<x>>
IsSome(o) == Len(o) = 1
Unwrap(o) == o[1]

\* RpcSolution as a caller builds it: the key of the caller and a nonce that
\* tells its submissions apart (encoding, signature and tag ride along with
\* the nonce and are not modelled separately).
RpcSolution(caller, n) == [public_key |-> <<caller>>, nonce |-> n]

\* FarmerId::from_slice: the key bytes wrapped into a FarmerId.
FarmerIdFromSlice(bytes) == [farmer |-> bytes[1]]

\* The Solution handed to the slot worker, built field by field.
ToSolution(rpc) == [public_key |-> FarmerIdFromSlice(rpc.public_key), nonce |-> rpc.nonce]

VARIABLES
  overflow_checks,          \* build profile: "on" = arithmetic overflow panics,
                            \* "off" = it wraps; "unseen" until a first overflow
                            \* shows which of the two the build is
  notification_senders,     \* Vec<UnboundedSender<NewSlotInfo>>, as outlet ids
  outlet_rx,                \* outlets whose receiving half is still alive
  solution_senders,         \* HashMap<Slot, Sender>: slot -> channel id, 0 = absent
  pc,                       \* position of the handler thread
  round,                    \* number of events taken from new_slot_notifier
  slot_number,              \* new_slot_info.slot_number of the current event
  solution_receiver,        \* id of the channel whose receiver is alive, 0 = none
  queue,                    \* messages queued in that channel
  expected_solutions_count,
  potential_solutions_left,
  idx,                      \* position of the broadcast loop in the Vec
  timer,                    \* "off", "running", "fired", "dropped"
  solution,                 \* result of the select
  replies,                  \* round -> values passed to sync_solution_sender.send
  send_result,              \* what the last sync_solution_sender.send returned
  inflight,                 \* the propose_proof_of_space call between lookup and send
  submitted,                \* number of propose_proof_of_space calls so far
  call_result,              \* what the last finished call returned
  last_call,                \* history: "stale" if that call was made for a slot
                            \* whose round was not open then; else "fresh" if
                            \* its send found that round still open, "crossed"
                            \* if it found a later round open, "late" if none
  nones,                    \* history: None messages the round's receiver took
  replied,                  \* history: callers whose message the receiver took
                            \* (caller c is the client behind outlet c)
  first_solution,           \* history: first Some message the receiver took
  notified,                 \* history: outlets the round's broadcast reached
  how                       \* history: path on which the round resolved

vars == <<overflow_checks, notification_senders, outlet_rx, solution_senders, pc,
          round, slot_number, solution_receiver, queue, expected_solutions_count,
          potential_solutions_left, idx, timer, solution, replies, send_result,
          inflight, submitted, call_result, last_call, nones, replied, first_solution,
          notified, how>>

registry == <<notification_senders, outlet_rx>>
roundvars == <<round, slot_number>>
aggr == <<expected_solutions_count, potential_solutions_left, idx, timer, solution>>
calls == <<inflight, submitted, call_result, last_call>>
taken == <<nones, replied, first_solution>>
hist == <<taken, notified, how>>
out == <<replies, send_result>>

\* No call is between its lookup and its send.
NoCall == [from |-> 0, solution |-> None, sender |-> 0, stale |-> FALSE]

\* The locals of the async block, as they are before the block has run and
\* after it has ended (line 197), with the history of the round.
NoRound ==
  /\ expected_solutions_count' = 0
  /\ potential_solutions_left' = 0
  /\ idx' = 0
  /\ timer' = "off"
  /\ solution' = None
  /\ nones' = 0
  /\ replied' = {}
  /\ first_solution' = None
  /\ notified' = {}
  /\ how' = "open"

Init ==
  /\ overflow_checks = "unseen"
  /\ notification_senders = <<>>
  /\ outlet_rx = {}
  /\ solution_senders = [s \in Slots |-> 0]
  /\ pc = "recv"
  /\ round = 0
  /\ slot_number = 0
  /\ solution_receiver = 0
  /\ queue = <<>>
  /\ expected_solutions_count = 0
  /\ potential_solutions_left = 0
  /\ idx = 0
  /\ timer = "off"
  /\ solution = None
  /\ replies = [r \in Rounds |-> <<>>]
  /\ send_result = "none"
  /\ inflight = NoCall
  /\ submitted = 0
  /\ call_result = "none"
  /\ last_call = "none"
  /\ nones = 0
  /\ replied = {}
  /\ first_solution = None
  /\ notified = {}
  /\ how = "open"

\* A handler that drops the guard right after len() and locks again for
\* each send.
NotificationSendersLocked_OnlyForLen == FALSE

\* The notification_senders mutex is held from the len() of line 151 to the
\* end of the block at line 161 (or to the early return of line 154).
NotificationSendersLocked == pc \in {"reply_none", "notify"}

\* ----------------------------------------------------- the handler thread
\* The test the handler makes on the count before it notifies anybody.
NobodyToNotify(count) == count = 0

\* A loop that hands each event to a task of its own instead of blocking on
\* it, and so is back at recv() while the round still waits in its select.
ReadyForNextEvent_NoBlock == pc \in {"recv", "select"}

\* The thread is at new_slot_notifier.recv(): block_on has returned for the
\* event before.
ReadyForNextEvent == pc = "recv"

\* new_slot_notifier.recv() returns the next event; channel(0) is created,
\* solution_senders.lock().insert(slot_number, solution_sender) run, then
\* notification_senders is locked, its len() taken and tested.
Recv ==
  /\ ReadyForNextEvent
  /\ round < MaxRounds
  /\ \E s \in Slots :
       /\ s >= slot_number
       /\ slot_number' = s
       /\ solution_senders' = [solution_senders EXCEPT ![s] = round + 1]
  /\ round' = round + 1
  /\ solution_receiver' = round + 1
  /\ queue' = <<>>
  /\ send_result' = "none"
  /\ expected_solutions_count' = Len(notification_senders)
  /\ IF NobodyToNotify(Len(notification_senders))
       THEN pc' = "reply_none" /\ idx' = idx
       ELSE pc' = "notify" /\ idx' = 1
  /\ UNCHANGED <<overflow_checks, registry, potential_solutions_left, timer,
                 solution, replies, calls, hist>>

\* new_slot_notifier.recv() returns Err: the feed has ended, the thread ends.
FeedEnd ==
  /\ pc = "recv"
  /\ pc' = "done"
  /\ UNCHANGED <<overflow_checks, registry, solution_senders, roundvars,
                 solution_receiver, queue, aggr, out, calls, hist>>

\* What the early return of the empty case leaves in the map of senders.
EarlyReturnSenders == solution_senders

\* sync_solution_sender.send(None); return; - the async block ends here, its
\* receiver is dropped.
ReplyNone ==
  /\ pc = "reply_none"
  /\ replies' = [replies EXCEPT ![round] = Append(@, None)]
  /\ send_result' \in {"ok", "err"}
  /\ solution_receiver' = 0
  /\ queue' = <<>>
  /\ solution_senders' = EarlyReturnSenders
  /\ NoRound
  /\ pc' = "recv"
  /\ UNCHANGED <<overflow_checks, registry, roundvars, calls>>

\* A handler that forgot to take failed sends off the count.
CountAfterSend_NoDecrement(count, failed) == count

\* The count after the delivery to one outlet: a failed send takes one off.
CountAfterSend(count, failed) == IF failed THEN count - 1 ELSE count

\* A loop that drops the sender whose send failed (Vec::retain style).
AfterFailedSend_Drops(senders, i) ==
  [j \in 1..(Len(senders) - 1) |-> IF j < i THEN senders[j] ELSE senders[j + 1]]

\* What a failed send to the i-th sender leaves in the Vec.
AfterFailedSend(senders, i) == senders

\* One turn of the loop over notification_senders: an unbounded send fails
\* exactly when the receiving half is gone.  After the last outlet the lock
\* is released, the timer is created and the count becomes the budget.
Notify ==
  /\ pc = "notify"
  /\ LET outlet == notification_senders[idx]
         failed == outlet \notin outlet_rx
         count == CountAfterSend(expected_solutions_count, failed)
     IN /\ expected_solutions_count' = count
        /\ notification_senders' = IF failed THEN AfterFailedSend(notification_senders, idx)
                                              ELSE notification_senders
        /\ notified' = IF failed THEN notified ELSE notified \cup {outlet}
        /\ IF idx = Len(notification_senders)
             THEN /\ pc' = "select"
                  /\ timer' = "running"
                  /\ potential_solutions_left' = count
                  /\ idx' = idx
             ELSE /\ pc' = "notify"
                  /\ idx' = idx + 1
                  /\ UNCHANGED <<timer, potential_solutions_left>>
  /\ UNCHANGED <<overflow_checks, outlet_rx, solution_senders, roundvars,
                 solution_receiver, queue, solution, out, calls, taken, how>>

\* A loop that counts a message before it looks at what the message holds.
OnSubmission_DecrementFirst(msg, left) ==
  IF left = 0
    THEN [kind |-> "overflow", left |-> UsizeMax, value |-> None]
  ELSE IF left - 1 = 0
    THEN [kind |-> "exhausted", left |-> 0, value |-> None]
  ELSE IF IsSome(msg.solution)
    THEN [kind |-> "solution", left |-> left - 1,
          value |-> Some(ToSolution(Unwrap(msg.solution)))]
  ELSE [kind |-> "continue", left |-> left - 1, value |-> None]

\* A loop without the `break` of line 180.
OnSubmission_NoBreak(msg, left) ==
  IF IsSome(msg.solution)
    THEN [kind |-> "solution", left |-> left,
          value |-> Some(ToSolution(Unwrap(msg.solution)))]
  ELSE IF left = 0
    THEN [kind |-> "overflow", left |-> UsizeMax, value |-> None]
  ELSE [kind |-> "continue", left |-> left - 1, value |-> None]

\* A loop that breaks one reply early (`<= 1` tested before the decrement
\* took effect).
OnSubmission_BreakEarly(msg, left) ==
  IF IsSome(msg.solution)
    THEN [kind |-> "solution", left |-> left,
          value |-> Some(ToSolution(Unwrap(msg.solution)))]
  ELSE IF left = 0
    THEN [kind |-> "overflow", left |-> UsizeMax, value |-> None]
  ELSE IF left - 1 <= 1
    THEN [kind |-> "exhausted", left |-> left - 1, value |-> None]
  ELSE [kind |-> "continue", left |-> left - 1, value |-> None]

\* A loop that tracks who has sent and skips a caller's second message (what
\* the TODO of line 165 asks for, applied to solutions as well).
OnSubmission_RejectRepeat(msg, left) ==
  IF msg.from \in replied
    THEN [kind |-> "continue", left |-> left, value |-> None]
  ELSE IF IsSome(msg.solution)
    THEN [kind |-> "solution", left |-> left,
          value |-> Some(ToSolution(Unwrap(msg.solution)))]
  ELSE IF left = 0
    THEN [kind |-> "overflow", left |-> UsizeMax, value |-> None]
  ELSE IF left - 1 = 0
    THEN [kind |-> "exhausted", left |-> 0, value |-> None]
  ELSE [kind |-> "continue", left |-> left - 1, value |-> None]

\* One turn of `while let Some(solution) = solution_receiver.next().await`
\* on the message `msg` with `left` = potential_solutions_left.
OnSubmission(msg, left) ==
  IF IsSome(msg.solution)
    THEN [kind |-> "solution", left |-> left,
          value |-> Some(ToSolution(Unwrap(msg.solution)))]
  ELSE IF left = 0
    THEN [kind |-> "overflow", left |-> UsizeMax, value |-> None]
  ELSE IF left - 1 = 0
    THEN [kind |-> "exhausted", left |-> 0, value |-> None]
  ELSE [kind |-> "continue", left |-> left - 1, value |-> None]

\* The build profile as a turn of kind `kind` finds it: an overflow is the
\* one place where the profile shows, and it is the same in every round.
Profile(kind) ==
  IF kind = "overflow" /\ overflow_checks = "unseen" THEN {"on", "off"}
                                                     ELSE {overflow_checks}

\* The solution future takes the next queued message.
Receive ==
  /\ pc = "select"
  /\ queue # <<>>
  /\ LET msg == Head(queue)
         r == OnSubmission(msg, potential_solutions_left)
     IN /\ replied' = replied \cup {msg.from}
        /\ nones' = IF IsSome(msg.solution) THEN nones ELSE nones + 1
        /\ first_solution' = IF first_solution = None THEN msg.solution
                                                      ELSE first_solution
        /\ overflow_checks' \in Profile(r.kind)
        /\ CASE r.kind \in {"solution", "exhausted"} ->
                  /\ potential_solutions_left' = r.left
                  /\ solution' = r.value
                  /\ how' = r.kind
                  /\ pc' = "reply"
                  /\ timer' = "dropped"
                  /\ solution_receiver' = 0
                  /\ queue' = <<>>
             [] r.kind = "overflow" /\ overflow_checks' = "on" ->
                  \* attempt to subtract with overflow: the thread unwinds
                  /\ pc' = "panicked"
                  /\ how' = "panic"
                  /\ timer' = "dropped"
                  /\ solution_receiver' = 0
                  /\ queue' = <<>>
                  /\ UNCHANGED <<solution, potential_solutions_left>>
             [] OTHER ->
                  /\ potential_solutions_left' = r.left
                  /\ queue' = Tail(queue)
                  /\ UNCHANGED <<pc, how, timer, solution_receiver, solution>>
  /\ UNCHANGED <<registry, solution_senders, roundvars,
                 expected_solutions_count, idx, out, calls, notified>>

\* The Delay elapses first: select yields None and drops the solution future.
Timeout ==
  /\ pc = "select"
  /\ timer = "running"
  /\ timer' = "fired"
  /\ solution' = None
  /\ how' = "deadline"
  /\ pc' = "reply"
  /\ solution_receiver' = 0
  /\ queue' = <<>>
  /\ UNCHANGED <<overflow_checks, registry, solution_senders, roundvars,
                 expected_solutions_count, potential_solutions_left, idx,
                 out, calls, taken, notified>>

\* sync_solution_sender.send(solution); an error is logged and dropped.
Reply ==
  /\ pc = "reply"
  /\ replies' = [replies EXCEPT ![round] = Append(@, solution)]
  /\ send_result' \in {"ok", "err"}
  /\ pc' = "remove"
  /\ UNCHANGED <<overflow_checks, registry, solution_senders, roundvars,
                 solution_receiver, queue, aggr, calls, hist>>

\* solution_senders.lock().remove(&slot_number).
Remove ==
  /\ pc = "remove"
  /\ solution_senders' = [solution_senders EXCEPT ![slot_number] = 0]
  /\ NoRound
  /\ pc' = "recv"
  /\ UNCHANGED <<overflow_checks, registry, roundvars, solution_receiver, queue,
                 out, calls>>

\* ------------------------------------------------- propose_proof_of_space
\* solution_senders.lock().get(&slot_number).cloned()
LookupSender(slot) == solution_senders[slot]

\* The round of `slot` is open: its event has been taken and its outcome is
\* not decided yet.
RoundOpen(slot) == slot = slot_number /\ pc \in {"reply_none", "notify", "select"}

\* The synchronous part of a call: the sender is looked up and cloned, the
\* future that will use it is returned.  One call at a time is between its
\* lookup and its send: a lookup only reads the map and a send that takes
\* effect finds its entry in the map from the lookup on, so the calls that
\* overlap in the program have the effect of these calls in some order.
Lookup ==
  /\ submitted < MaxSubmits
  /\ inflight = NoCall
  /\ submitted' = submitted + 1
  /\ \E slot \in Slots, from \in Callers, has \in BOOLEAN :
       inflight' =
         [from |-> from,
          solution |-> IF has THEN Some(RpcSolution(from, submitted + 1)) ELSE None,
          sender |-> LookupSender(slot),
          stale |-> ~RoundOpen(slot)]
  /\ UNCHANGED <<overflow_checks, registry, solution_senders, pc, roundvars,
                 solution_receiver, queue, aggr, out, call_result, last_call, hist>>

\* A send that lands in whichever round's channel is open, as it would if
\* the slot were looked up again when the future runs.
Accepts_AnyOpen(sender) == sender # 0 /\ solution_receiver # 0

\* A send through one channel that outlives the rounds: a sender cloned in
\* an earlier round still feeds the receiver of the round that is open.
Accepts_LaterRound(sender) ==
  sender # 0 /\ solution_receiver # 0 /\ sender <= solution_receiver

\* sender.send(..) reaches the queue only of the channel the sender belongs
\* to, and only while that channel's receiver is alive.
Accepts(sender) == sender # 0 /\ sender = solution_receiver

\* What the call returns, whatever became of the send.
CallResult(accepted) == "Ok"

\* History: what the send of call c finds of the round c was made for.
CallFate(c) ==
  IF c.stale THEN "stale"
  ELSE IF pc \notin {"reply_none", "notify", "select"} THEN "late"
  ELSE IF c.sender = round THEN "fresh"
  ELSE "crossed"

\* The future of the call: `if let Some(sender)`, the send, Ok(()).
Deliver ==
  /\ inflight # NoCall
  /\ queue' = IF Accepts(inflight.sender)
                THEN Append(queue, [from |-> inflight.from, solution |-> inflight.solution,
                                    via |-> inflight.sender])
                ELSE queue
  /\ call_result' = CallResult(Accepts(inflight.sender))
  /\ last_call' = CallFate(inflight)
  /\ inflight' = NoCall
  /\ UNCHANGED <<overflow_checks, registry, solution_senders, pc, roundvars,
                 solution_receiver, aggr, out, submitted, hist>>

\* ------------------------------------------------------- subscriptions
\* subscribe_slot_info: a fresh unbounded channel, its sender pushed.
Subscribe ==
  /\ ~NotificationSendersLocked
  /\ Len(notification_senders) < MaxSubscribers
  /\ LET outlet == Len(notification_senders) + 1
     IN /\ notification_senders' = Append(notification_senders, outlet)
        /\ outlet_rx' = outlet_rx \cup {outlet}
  /\ UNCHANGED <<overflow_checks, solution_senders, pc, roundvars, solution_receiver,
                 queue, aggr, out, calls, hist>>

\* An unsubscribe that takes the leaving subscriber off the budget of the
\* round that is waiting.
Unsubscribe_AdjustsBudget ==
  /\ \E outlet \in outlet_rx :
       /\ outlet_rx' = outlet_rx \ {outlet}
       /\ notification_senders' = notification_senders
  /\ potential_solutions_left' =
       IF pc = "select" /\ potential_solutions_left > 1
         THEN potential_solutions_left - 1 ELSE potential_solutions_left
  /\ UNCHANGED <<overflow_checks, solution_senders, pc, roundvars, solution_receiver,
                 queue, expected_solutions_count, idx, timer, solution, out, calls, hist>>

\* What unsubscribing leaves in the Vec of senders.
UnsubscribeSenders(outlet) == notification_senders

\* unsubscribe_slot_info: manager.cancel(id) ends the subscription's sink and
\* with it the receiving half of the outlet.
Unsubscribe ==
  /\ \E outlet \in outlet_rx :
       /\ outlet_rx' = outlet_rx \ {outlet}
       /\ notification_senders' = UnsubscribeSenders(outlet)
  /\ UNCHANGED <<overflow_checks, solution_senders, pc, roundvars, solution_receiver,
                 queue, aggr, out, calls, hist>>

Next ==
  \/ Recv
  \/ FeedEnd
  \/ ReplyNone
  \/ Notify
  \/ Receive
  \/ Timeout
  \/ Reply
  \/ Remove
  \/ Lookup
  \/ Deliver
  \/ Subscribe
  \/ Unsubscribe

Spec == Init /\ [][Next]_vars

\* The handler thread runs whenever it can, and a Delay that was started
\* elapses; callers and subscribers owe nothing.
Worker == ReplyNone \/ Notify \/ Receive \/ Timeout \/ Reply \/ Remove

FairSpec == Spec /\ WF_vars(Worker) /\ WF_vars(Timeout)

\* ------------------------------------------------------------ properties
\* The round in hand has been resolved: the select has returned.
Resolved == pc \in {"reply", "remove"}

\* The thread is past the place where the Outcome of round r is sent, or dead.
OutcomeDue(r) == r < round \/ (r = round /\ pc \in {"remove", "recv", "done", "panicked"})

\* The Solution the worker is to get for the RpcSolution `rpc`.
Expected(rpc) == [public_key |-> [farmer |-> rpc.public_key[1]], nonce |-> rpc.nonce]

\* C1: every event the loop has taken gets exactly one Outcome sent to its
\* reply channel: never two, and one once the loop is past that round.
C1_ExactlyOneOutcome ==
  \A r \in Rounds :
    /\ Len(replies[r]) <= 1
    /\ r > round => replies[r] = <<>>
    /\ (r <= round /\ OutcomeDue(r)) => Len(replies[r]) = 1

\* C2: a round whose broadcast ends with a count of 0 does not wait: it is
\* resolved to None with no timer fired and no submission taken.
C2_ZeroCountFastPath ==
  (pc \in {"select", "reply", "remove", "panicked"} /\ expected_solutions_count = 0)
    => /\ pc # "select"
       /\ solution = None
       /\ timer # "fired"
       /\ replied = {}

\* C3: a round resolved to Some(s) has s built from the first message with a
\* solution its receiver took, however many None preceded it; and once such
\* a message is taken the round is resolved to it, and that is what is sent.
C3_FirstSolutionWins ==
  /\ (Resolved /\ IsSome(solution)) =>
       /\ IsSome(first_solution)
       /\ Unwrap(solution) = Expected(Unwrap(first_solution))
  /\ IsSome(first_solution) =>
       /\ Resolved
       /\ solution = Some(Expected(Unwrap(first_solution)))
       /\ pc = "remove" => replies[round] = <<solution>>

C3_Witness ==
  /\ pc = "remove"
  /\ expected_solutions_count = 2
  /\ nones = 1
  /\ replied = {1, 2}
  /\ IsSome(solution)
  /\ Unwrap(solution).public_key.farmer = 1
  /\ replies[round] = <<solution>>

\* C4: with a count n > 0, once n None messages and no solution have been
\* taken the round is resolved to None, and no timer has fired for it.
C4_Exhaustion ==
  (/\ pc \in {"select", "reply", "remove", "panicked"}
   /\ expected_solutions_count > 0
   /\ first_solution = None
   /\ nones >= expected_solutions_count)
    => /\ Resolved
       /\ solution = None
       /\ timer = "dropped"
       /\ nones = expected_solutions_count
       /\ pc = "remove" => replies[round] = <<None>>

C4_Witness ==
  /\ pc = "remove"
  /\ how = "exhausted"
  /\ expected_solutions_count = 2
  /\ nones = 2
  /\ replies[round] = <<None>>

\* C5: with a count n > 0, no solution taken and fewer than n None taken,
\* nothing is sent before the timer fires, and what is sent after it is None.
C5_DeadlineNotEarlier ==
  (/\ pc \in {"select", "reply", "remove", "panicked"}
   /\ expected_solutions_count > 0
   /\ first_solution = None
   /\ nones < expected_solutions_count)
    => /\ timer # "fired" => (pc = "select" /\ replies[round] = <<>>)
       /\ timer = "fired" =>
            /\ Resolved
            /\ solution = None
            /\ replies[round] = IF pc = "remove" THEN <<None>> ELSE <<>>

C5_Witness ==
  /\ pc = "remove"
  /\ timer = "fired"
  /\ expected_solutions_count = 2
  /\ nones = 0
  /\ replied = {}
  /\ replies[round] = <<None>>

\* C6: with the timer and the thread fair, every event the loop has taken
\* has an Outcome sent to its reply channel in the end.
C6_EveryRoundReplied ==
  \A r \in Rounds : (round = r) ~> (replies[r] # <<>>)

\* C7: when the loop waits for the next event the map holds no entry for
\* the slot of the round it has just finished.
C7_EntryRemovedWhenIdle ==
  (pc \in {"recv", "done"} /\ round >= 1) => solution_senders[slot_number] = 0

\* C8: the send of a call that was made for a slot whose round was not open
\* (unknown, or resolved already) returns Ok and changes neither the replies,
\* nor the open round's budget, queue or result, nor the map of senders.
C8_StaleSubmissionNoOp ==
  [][(inflight # NoCall /\ inflight.stale /\ inflight' = NoCall)
       => /\ call_result' = "Ok"
          /\ UNCHANGED <<replies, potential_solutions_left, queue, solution,
                         solution_senders, pc, nones, replied, first_solution>>]_vars

C8_Witness ==
  /\ last_call = "stale"
  /\ call_result = "Ok"
  /\ inflight = NoCall
  /\ pc = "select"
  /\ round = 2
  /\ replies[1] # <<>>
  /\ expected_solutions_count > 0
  /\ potential_solutions_left = expected_solutions_count
  /\ queue = <<>>
  /\ replied = {}

\* C9 as stated: a round ends by exhaustion only when every subscriber its
\* broadcast reached has had a message taken.
C9_ExhaustionHeardEveryNotified ==
  how = "exhausted" => notified \subseteq replied

\* C9 as amended: a round ends with None before the timer fires only when as
\* many None messages have been taken as outlets were reached, whoever sent
\* them.
C9_ExhaustionCountsMessages ==
  (Resolved /\ solution = None /\ timer # "fired")
    => /\ how = "exhausted"
       /\ nones = expected_solutions_count
       /\ expected_solutions_count = Cardinality(notified)

C9_Witness ==
  /\ pc = "remove"
  /\ how = "exhausted"
  /\ notified = {1, 2}
  /\ replied = {1}
  /\ nones = 2
  /\ replies[round] = <<None>>

\* C10: a solution from a caller whose None was taken earlier in the round
\* resolves the round, if the round is still open when it is taken.
C10_RepeatSenderAccepted ==
  [][(/\ pc = "select"
      /\ queue # <<>>
      /\ IsSome(Head(queue).solution)
      /\ Head(queue).from \in replied
      /\ first_solution' # first_solution)
       => /\ pc' = "reply"
          /\ how' = "solution"
          /\ solution' = Some(Expected(Unwrap(Head(queue).solution)))]_vars

C10_Witness ==
  /\ pc = "remove"
  /\ how = "solution"
  /\ expected_solutions_count = 2
  /\ nones = 1
  /\ replied = {1}
  /\ Unwrap(solution).public_key.farmer = 1
  /\ replies[round] = <<solution>>

\* C11: an outlet whose subscription was cancelled is no longer one of the
\* senders a broadcast counts and iterates: every sender in the Vec belongs
\* to a subscription that is still alive.
C11_UnsubscribedOutletLeavesRegistry ==
  \A i \in 1..Len(notification_senders) : notification_senders[i] \in outlet_rx

\* An unsubscribe step: a live subscription ends.
UnsubscribeStep == outlet_rx' # outlet_rx /\ outlet_rx' \subseteq outlet_rx

\* C12: an unsubscribe that comes after a round's broadcast and before the
\* round resolves leaves the round's count, its remaining budget, its queue,
\* its timer and its outcome as they were.
C12_UnsubscribeLeavesOpenRound ==
  [][(pc = "select" /\ UnsubscribeStep)
       => UNCHANGED <<expected_solutions_count, potential_solutions_left, notified,
                      queue, timer, solution, how, pc, replies, solution_receiver>>]_vars

C12_Witness ==
  /\ pc = "select"
  /\ notified = {1, 2}
  /\ outlet_rx = {2}
  /\ expected_solutions_count = 2
  /\ potential_solutions_left = 2

\* C13: the count is taken and the notifications are sent under one lock: in
\* the middle of a broadcast the Vec is as long as it was when it was counted,
\* and once the broadcast is over the outlets notified are among the first
\* idx senders, as many as the count says; a sender pushed later is neither.
C13_CountedAreAttempted ==
  /\ pc = "notify" =>
       /\ idx <= Len(notification_senders)
       /\ Len(notification_senders) =
            expected_solutions_count + ((idx - 1) - Cardinality(notified))
  /\ pc = "select" =>
       /\ idx <= Len(notification_senders)
       /\ notified \subseteq {notification_senders[i] : i \in 1..idx}
       /\ expected_solutions_count = Cardinality(notified)

C13_Witness ==
  /\ pc = "select"
  /\ idx = 1
  /\ notification_senders = <<1, 2>>
  /\ outlet_rx = {1, 2}
  /\ notified = {1}
  /\ expected_solutions_count = 1

\* C14: a send that fails during the broadcast leaves the Vec of senders as
\* it was, takes one off the count, notifies nobody and moves on to the next
\* sender without trying the failed one again.
C14_FailedDeliveryKeepsRegistry ==
  [][(/\ pc = "notify"
      /\ notification_senders[idx] \notin outlet_rx
      /\ (idx' # idx \/ pc' # pc))
       => /\ notification_senders' = notification_senders
          /\ outlet_rx' = outlet_rx
          /\ expected_solutions_count' = expected_solutions_count - 1
          /\ notified' = notified
          /\ (pc' = "notify" => idx' = idx + 1)
          /\ (pc' # "notify" => pc' = "select" /\ idx = Len(notification_senders))]_vars

C14_Witness ==
  /\ pc = "select"
  /\ idx = 2
  /\ notification_senders = <<1, 2>>
  /\ outlet_rx = {2}
  /\ notified = {2}
  /\ expected_solutions_count = 1

\* C15: the handler thread stops only when the feed of events has ended: no
\* round, whatever became of it, ends the thread.
C15_LoopStopsOnlyAtFeedEnd == pc # "panicked"

\* C16: when the outcome of a round has been written, the map of senders
\* holds no entry for the round's slot any more.
C16_EntryRemovedBeforeOutcome ==
  (round >= 1 /\ pc = "remove" /\ replies[round] # <<>>)
    => solution_senders[slot_number] = 0

\* C17: the next event is taken only when the thread is back at recv(), the
\* receiver of the round before is gone and that round's outcome has been
\* written; the receiver that is alive is the one of the round just taken.
C17_RoundsDoNotOverlap ==
  [][round' # round
       => /\ pc = "recv"
          /\ solution_receiver = 0
          /\ (round >= 1 => replies[round] # <<>>)
          /\ round' = round + 1
          /\ solution_receiver' = round']_vars

C17_Witness ==
  /\ round = 2
  /\ pc = "select"
  /\ solution_receiver = 2
  /\ Len(replies[1]) = 1
  /\ replies[1] # <<None>>
  /\ replies[2] = <<>>

\* C18: the remaining budget stays between 0 and the count of the round: no
\* subtraction is ever done on a budget of 0.
C18_RemainingNeverUnderflows ==
  /\ overflow_checks = "unseen"
  /\ potential_solutions_left >= 0
  /\ potential_solutions_left <= expected_solutions_count

\* C19: every message waiting in a round's channel was sent through the
\* sender of that very round, and the send of a call that looked its sender
\* up while its round was open and completes once that round is over changes
\* nothing of any round: not the queue, not the budget, not the outcome.
C19_OnlyOwnRoundCounts ==
  /\ [](\A i \in 1..Len(queue) : queue[i].via = round)
  /\ [][(/\ inflight # NoCall
          /\ inflight' = NoCall
          /\ ~inflight.stale
          /\ CallFate(inflight) \in {"late", "crossed"})
           => UNCHANGED <<queue, aggr, pc, solution_receiver, out, taken, how>>]_vars

C19_Witness ==
  /\ last_call = "crossed"
  /\ submitted = 2
  /\ round = 2
  /\ Len(replies[1]) = 1
  /\ replies[1] # <<None>>
  /\ solution = None
  /\ slot_number = 1
  /\ pc = "select"
  /\ queue = <<>>
  /\ replied = {}
  /\ potential_solutions_left = expected_solutions_count

====
